---- MODULE Spec2Model ----
(***************************************************************************)
(* A model of hugo_frontmatter_mcp.py: the frontmatter tools of one file   *)
(* (get/set of a field, add/remove of a list item) and the directory-wide  *)
(* tools (tag tally, tag search, tag rename, date validation).             *)
(*                                                                         *)
(* The file system is the state.  A Markdown file is held as what          *)
(* frontmatter.load makes of it: whether its YAML block parses, the        *)
(* metadata mapping and the body.  Every tool call is one action; the      *)
(* call and the dictionary it returns are recorded in op and res.          *)
(***************************************************************************)
EXTENDS Integers, Sequences, FiniteSets, TLC

VARIABLES
    fs,      \* path -> the file there
    op,      \* the last call: the tool's name and its arguments
    res,     \* the dictionary the last call returned
    reads,   \* the files the last call opened for reading
    writes   \* the files the last call overwrote

vars == <<fs, op, res, reads, writes>>

---------------------------------------------------------------------------
(* Python values as they occur in frontmatter.  A value is a record        *)
(* [t, v]: t is the Python type, v the payload.  A str is its sequence of  *)
(* characters, a list the sequence of its items (values again).            *)

Absent == [t |-> "absent", v |-> <<>>]
PyNone == [t |-> "NoneType", v |-> <<>>]
Str(chars) == [t |-> "str", v |-> chars]
PyBool(b) == [t |-> "bool", v |-> IF b THEN <<"T", "r", "u", "e">> ELSE <<"F", "a", "l", "s", "e">>]
PyInt(digits) == [t |-> "int", v |-> digits]
List(items) == [t |-> "list", v |-> items]
Date(chars) == [t |-> "date", v |-> chars]
DateTime(chars) == [t |-> "datetime", v |-> chars]

\* isinstance(value, typ) for the types the tools test.  datetime.datetime
\* is a subclass of datetime.date, not the other way round.
isinstance(value, typ) ==
    \/ value.t = typ
    \/ typ = "date" /\ value.t = "datetime"

\* The keys a metadata mapping of the model can hold; a key whose value is
\* Absent is not in the mapping.
Keys == {"title", "date", "publishDate", "description", "draft", "tags", "images"}

NoMeta == [k \in Keys |-> Absent]

\* post.metadata.get(key): None when the key is missing.
MetaGet(meta, key) == IF meta[key] = Absent THEN PyNone ELSE meta[key]

\* key in post.metadata
MetaHas(meta, key) == meta[key] # Absent

---------------------------------------------------------------------------
(* Paths.  The tree is /r (a directory) holding a.md, the directory        *)
(* d.md and the directory sub, which holds b.md and c.md.                  *)

MdFiles == {"/r/a.md", "/r/sub/b.md", "/r/sub/c.md"}
AbsPaths == MdFiles \cup {"/r", "/r/sub", "/r/d.md", "/nofile.md", "/nodir"}
RelPaths == {"rel.md", "r"}
Dirs == {"/r", "/r/sub", "/r/d.md"}

Parent(p) ==
    CASE p \in {"/r/a.md", "/r/sub", "/r/d.md"} -> "/r"
      [] p \in {"/r/sub/b.md", "/r/sub/c.md"} -> "/r/sub"
      [] OTHER -> "/"

\* pathlib.Path.is_absolute, is_file, is_dir
is_absolute(p) == p \in AbsPaths
is_file(p) == p \in DOMAIN fs
is_dir(p) == p \in Dirs

\* A file as frontmatter.load reads it: ok is FALSE when the YAML block does
\* not parse.
Malformed == [ok |-> FALSE, meta |-> NoMeta, body |-> "raw"]
Post(meta, body) == [ok |-> TRUE, meta |-> meta, body |-> body]

NoPost == [ok |-> FALSE, meta |-> NoMeta, body |-> "none"]
NoError == [none |-> TRUE]

---------------------------------------------------------------------------
(* Helper functions.                                                       *)

\* _load_post on the files as they are at the time of the call:
\* <<post, error>>
load_from(files, file_path_str) ==
    IF ~is_absolute(file_path_str)
    THEN <<NoPost, [error |-> "Path must be absolute", file_path |-> file_path_str]>>
    ELSE IF ~is_file(file_path_str)
    THEN <<NoPost, [error |-> "File not found", file_path |-> file_path_str]>>
    ELSE IF ~files[file_path_str].ok
    THEN <<NoPost, [error |-> "YAML parsing error in frontmatter", file_path |-> file_path_str]>>
    ELSE <<files[file_path_str], NoError>>

\* _load_post at the start of a call
load_post(file_path_str) == load_from(fs, file_path_str)

\* _save_post's result: None, or the error dictionary.  The write fails
\* (IOError) on a file of the set readonly.
save_error(file_path_str, readonly) ==
    IF ~is_absolute(file_path_str)
    THEN [error |-> "Path for saving must be absolute", file_path |-> file_path_str]
    ELSE IF file_path_str \in readonly
    THEN [error |-> "Failed to write file", file_path |-> file_path_str]
    ELSE NoError

\* _save_post's effect on the file system: frontmatter.dump overwrites the
\* file with the post's metadata and content.
save_post(files, file_path_str, post, readonly) ==
    IF save_error(file_path_str, readonly) = NoError
    THEN [files EXCEPT ![file_path_str] = Post(post.meta, post.body)]
    ELSE files

\* What a call leaves behind: the file system, the returned dictionary and
\* the files it read and wrote.
Outcome(files, result, rd, wr) == [fs |-> files, res |-> result, reads |-> rd, writes |-> wr]

\* The files _load_post opens: those that pass its two path tests.
Opened(file_path_str) ==
    IF is_absolute(file_path_str) /\ is_file(file_path_str) THEN {file_path_str} ELSE {}

Return(call, out) ==
    /\ op' = call
    /\ fs' = out.fs
    /\ res' = out.res
    /\ reads' = out.reads
    /\ writes' = out.writes

---------------------------------------------------------------------------
(* Single-file tools.                                                      *)

\* get_frontmatter's result
get_frontmatter_result(file_path) ==
    LET loaded == load_post(file_path) IN
    IF loaded[2] # NoError THEN loaded[2]
    ELSE [file_path |-> file_path, frontmatter |-> loaded[1].meta]

get_frontmatter(file_path) ==
    Return([name |-> "get_frontmatter", file_path |-> file_path],
           Outcome(fs, get_frontmatter_result(file_path), Opened(file_path), {}))

\* get_field's result
get_field_result(file_path, field_name) ==
    LET loaded == load_post(file_path) IN
    IF loaded[2] # NoError THEN loaded[2]
    ELSE IF MetaHas(loaded[1].meta, field_name)
    THEN [file_path |-> file_path, field |-> field_name,
          value |-> loaded[1].meta[field_name], exists |-> TRUE]
    ELSE [file_path |-> file_path, field |-> field_name,
          exists |-> FALSE, value |-> PyNone]

get_field(file_path, field_name) ==
    Return([name |-> "get_field", file_path |-> file_path, field_name |-> field_name],
           Outcome(fs, get_field_result(file_path, field_name), Opened(file_path), {}))

\* The type test left out.
type_ok_unchecked(field_value, expected_type) == TRUE

\* The type test that opens _set_specific_field.
type_ok(field_value, expected_type) == isinstance(field_value, expected_type)

\* The assignment replaces the whole mapping.
set_item_clobbers(post, field_name, field_value) ==
    [post EXCEPT !.meta = [NoMeta EXCEPT ![field_name] = field_value]]

\* post.metadata[field_name] = field_value
set_item(post, field_name, field_value) ==
    [post EXCEPT !.meta[field_name] = field_value]

\* _set_specific_field
set_specific_field(file_path, field_name, field_value, expected_type, readonly) ==
    IF ~type_ok(field_value, expected_type)
    THEN Outcome(fs, [error |-> "Value must be of the expected type", file_path |-> file_path],
                 {}, {})
    ELSE
    LET loaded == load_post(file_path) IN
    IF loaded[2] # NoError THEN Outcome(fs, loaded[2], Opened(file_path), {})
    ELSE
    LET post == set_item(loaded[1], field_name, field_value)
        err == save_error(file_path, readonly)
    IN  IF err # NoError THEN Outcome(fs, err, {file_path}, {})
        ELSE Outcome(save_post(fs, file_path, post, readonly),
                     [file_path |-> file_path, field_name |-> field_name,
                      new_value |-> field_value, message |-> "updated",
                      updated_frontmatter |-> post.meta],
                     {file_path}, {file_path})

Setter(name, file_path, field_name, field_value, expected_type, readonly) ==
    Return([name |-> name, file_path |-> file_path, value |-> field_value],
           set_specific_field(file_path, field_name, field_value, expected_type, readonly))

set_title(file_path, title, readonly) ==
    Setter("set_title", file_path, "title", title, "str", readonly)

set_date(file_path, date_value, readonly) ==
    Setter("set_date", file_path, "date", date_value, "str", readonly)

set_publish_date(file_path, publish_date_value, readonly) ==
    Setter("set_publish_date", file_path, "publishDate", publish_date_value, "str", readonly)

set_description(file_path, description, readonly) ==
    Setter("set_description", file_path, "description", description, "str", readonly)

set_draft_status(file_path, draft_status, readonly) ==
    Setter("set_draft_status", file_path, "draft", draft_status, "bool", readonly)

---------------------------------------------------------------------------
(* List-field tools.                                                       *)

Whitespace == {" ", "\t", "\n"}

\* s.strip() is empty
StripIsEmpty(chars) == \A i \in 1..Len(chars) : chars[i] \in Whitespace

\* item_value in current_list
Contains(items, item_value) == \E i \in 1..Len(items) : items[i] = item_value

\* The add appends whatever the list holds.
add_appends_always(current_list, item_value) == TRUE

\* The add's test: item_value not in current_list
add_appends(current_list, item_value) == ~Contains(current_list, item_value)

\* current_list.remove(item_value): the first occurrence goes.
ListRemove(items, item_value) ==
    LET first == CHOOSE i \in 1..Len(items) :
                    /\ items[i] = item_value
                    /\ \A j \in 1..(i - 1) : items[j] # item_value
    IN  [k \in 1..(Len(items) - 1) |-> IF k < first THEN items[k] ELSE items[k + 1]]

\* _modify_list_field
modify_list_field(action, file_path, field_name, item_value, readonly) ==
    LET loaded == load_post(file_path) IN
    IF loaded[2] # NoError THEN Outcome(fs, loaded[2], Opened(file_path), {})
    ELSE
    LET post == loaded[1]
        stored == MetaGet(post.meta, field_name)
    IN
    IF stored # PyNone /\ ~isinstance(stored, "list") /\ ~isinstance(stored, "str")
    THEN Outcome(fs, [error |-> "Field exists but is not a list", file_path |-> file_path],
                 {file_path}, {})
    ELSE
    LET current_list == IF stored = PyNone THEN <<>>
                        ELSE IF isinstance(stored, "list") THEN stored.v
                        ELSE <<stored>>
        unchanged(msg) ==
            Outcome(fs, [message |-> msg, file_path |-> file_path, field |-> field_name,
                         current |-> List(current_list),
                         updated_frontmatter |-> post.meta],
                    {file_path}, {})
        saved(new_list) ==
            LET new_post == set_item(post, field_name, List(new_list))
                err == save_error(file_path, readonly)
            IN  IF err # NoError THEN Outcome(fs, err, {file_path}, {})
                ELSE Outcome(save_post(fs, file_path, new_post, readonly),
                             [file_path |-> file_path, field_name |-> field_name,
                              action |-> action, item_value |-> item_value,
                              message |-> "File saved",
                              updated_frontmatter |-> new_post.meta],
                             {file_path}, {file_path})
    IN
    IF action = "add"
    THEN IF add_appends(current_list, item_value)
         THEN saved(Append(current_list, item_value))
         ELSE unchanged("already exists")
    ELSE IF action = "remove"
    THEN IF Contains(current_list, item_value)
         THEN saved(ListRemove(current_list, item_value))
         ELSE unchanged("not found")
    ELSE Outcome(fs, [error |-> "Invalid action for _modify_list_field",
                      file_path |-> file_path], {file_path}, {})

\* The four list tools: the item must be a non-blank string.
ListTool(name, action, file_path, field_name, item, readonly) ==
    Return([name |-> name, file_path |-> file_path, item |-> item],
           IF ~isinstance(item, "str") \/ StripIsEmpty(item.v)
           THEN Outcome(fs, [error |-> "Item must be a non-empty string",
                             file_path |-> file_path, item |-> item], {}, {})
           ELSE modify_list_field(action, file_path, field_name, item, readonly))

add_tag(file_path, tag_to_add, readonly) ==
    ListTool("add_tag", "add", file_path, "tags", tag_to_add, readonly)

remove_tag(file_path, tag_to_remove, readonly) ==
    ListTool("remove_tag", "remove", file_path, "tags", tag_to_remove, readonly)

add_image(file_path, image_path_to_add, readonly) ==
    ListTool("add_image", "add", file_path, "images", image_path_to_add, readonly)

remove_image(file_path, image_path_to_remove, readonly) ==
    ListTool("remove_image", "remove", file_path, "images", image_path_to_remove, readonly)

---------------------------------------------------------------------------
(* Directory tools.                                                        *)

\* directory_path.glob("**/*.md") or glob("*.md"): the names ending in .md
\* below the directory, at any depth or directly in it.
Glob(directory_path, recursive) ==
    { p \in MdFiles \cup {"/r/d.md"} :
        \/ Parent(p) = directory_path
        \/ recursive /\ Parent(Parent(p)) = directory_path }

\* The orders in which a directory's entries can come: pathlib sorts nothing.
Orders(S) ==
    { q \in [1..Cardinality(S) -> S] : \A i, j \in 1..Cardinality(S) : i # j => q[i] # q[j] }

\* What the loop over glob can see: the matches directly in the directory
\* first, then those of its subdirectory, each in the directory's order.
GlobOrders(directory_path, recursive) ==
    LET direct == {p \in Glob(directory_path, recursive) : Parent(p) = directory_path}
        deeper == Glob(directory_path, recursive) \ direct
    IN  {top \o sub : top \in Orders(direct), sub \in Orders(deeper)}

\* The checks on the directory that open every directory tool.
directory_error(directory_path_str) ==
    IF ~is_absolute(directory_path_str)
    THEN [error |-> "Directory path must be absolute", directory_path |-> directory_path_str]
    ELSE IF ~is_dir(directory_path_str)
    THEN [error |-> "Directory not found", directory_path |-> directory_path_str]
    ELSE NoError

\* Counter(): tag -> count
EmptyCounter == [tag \in {} |-> 0]

\* tag_counter[tag] += 1
Increment(tag_counter, tag) ==
    IF tag \in DOMAIN tag_counter
    THEN [tag_counter EXCEPT ![tag] = @ + 1]
    ELSE [t \in DOMAIN tag_counter \cup {tag} |->
            IF t = tag THEN 1 ELSE tag_counter[t]]

RECURSIVE CountTags(_, _, _)
\* The inner loop of list_tags_in_directory over one file's tags, from item i.
CountTags(tags, i, tag_counter) ==
    IF i > Len(tags) THEN tag_counter
    ELSE CountTags(tags, i + 1,
                   IF isinstance(tags[i], "str") THEN Increment(tag_counter, tags[i])
                   ELSE tag_counter)

RECURSIVE list_tags_loop_stops(_, _, _)
\* The loop with a break where the code continues: it ends at the first
\* file that does not load.
list_tags_loop_stops(order, i, acc) ==
    IF i > Len(order) THEN acc
    ELSE
    LET md_file_path == order[i] IN
    IF ~is_file(md_file_path) THEN list_tags_loop_stops(order, i + 1, acc)
    ELSE
    LET loaded == load_post(md_file_path)
        counted == [acc EXCEPT !.files_processed = @ + 1,
                               !.reads = @ \cup Opened(md_file_path)]
    IN
    IF loaded[2] # NoError THEN counted
    ELSE IF isinstance(MetaGet(loaded[1].meta, "tags"), "list")
    THEN list_tags_loop_stops(order, i + 1,
            [counted EXCEPT !.files_with_tags = @ + 1,
                            !.tag_counts = CountTags(loaded[1].meta["tags"].v, 1, @)])
    ELSE list_tags_loop_stops(order, i + 1, counted)

RECURSIVE list_tags_loop(_, _, _)
\* The loop of list_tags_in_directory over what glob yields, from file i.
list_tags_loop(order, i, acc) ==
    IF i > Len(order) THEN acc
    ELSE
    LET md_file_path == order[i] IN
    IF ~is_file(md_file_path) THEN list_tags_loop(order, i + 1, acc)
    ELSE
    LET loaded == load_post(md_file_path)
        counted == [acc EXCEPT !.files_processed = @ + 1,
                               !.reads = @ \cup Opened(md_file_path)]
    IN
    IF loaded[2] # NoError THEN list_tags_loop(order, i + 1, counted)
    ELSE IF isinstance(MetaGet(loaded[1].meta, "tags"), "list")
    THEN list_tags_loop(order, i + 1,
            [counted EXCEPT !.files_with_tags = @ + 1,
                            !.tag_counts = CountTags(loaded[1].meta["tags"].v, 1, @)])
    ELSE list_tags_loop(order, i + 1, counted)

list_tags_outcome(directory_path_str, recursive, order) ==
    IF directory_error(directory_path_str) # NoError
    THEN Outcome(fs, directory_error(directory_path_str), {}, {})
    ELSE
    LET acc == list_tags_loop(order, 1,
                 [files_processed |-> 0, files_with_tags |-> 0,
                  tag_counts |-> EmptyCounter, reads |-> {}])
    IN  Outcome(fs, [directory_path |-> directory_path_str, recursive |-> recursive,
                     files_processed |-> acc.files_processed,
                     files_with_tags |-> acc.files_with_tags,
                     tag_counts |-> acc.tag_counts],
                acc.reads, {})

list_tags_in_directory(directory_path_str, recursive, order) ==
    Return([name |-> "list_tags_in_directory", directory_path |-> directory_path_str,
            recursive |-> recursive],
           list_tags_outcome(directory_path_str, recursive, order))

RECURSIVE find_posts_loop(_, _, _, _)
\* The loop of find_posts_by_tag.
find_posts_loop(order, i, tag_to_find, acc) ==
    IF i > Len(order) THEN acc
    ELSE
    LET md_file_path == order[i] IN
    IF ~is_file(md_file_path) THEN find_posts_loop(order, i + 1, tag_to_find, acc)
    ELSE
    LET loaded == load_post(md_file_path)
        counted == [acc EXCEPT !.files_processed = @ + 1,
                               !.reads = @ \cup Opened(md_file_path)]
    IN
    IF loaded[2] # NoError THEN find_posts_loop(order, i + 1, tag_to_find, counted)
    ELSE IF /\ isinstance(MetaGet(loaded[1].meta, "tags"), "list")
            /\ Contains(loaded[1].meta["tags"].v, tag_to_find)
    THEN find_posts_loop(order, i + 1, tag_to_find,
            [counted EXCEPT !.matching_files = Append(@, md_file_path)])
    ELSE find_posts_loop(order, i + 1, tag_to_find, counted)

find_posts_outcome(directory_path_str, tag_to_find, recursive, order) ==
    IF directory_error(directory_path_str) # NoError
    THEN Outcome(fs, directory_error(directory_path_str), {}, {})
    ELSE IF ~isinstance(tag_to_find, "str") \/ StripIsEmpty(tag_to_find.v)
    THEN Outcome(fs, [error |-> "Tag to find must be a non-empty string",
                      tag_to_find |-> tag_to_find], {}, {})
    ELSE
    LET acc == find_posts_loop(order, 1, tag_to_find,
                 [files_processed |-> 0, matching_files |-> <<>>, reads |-> {}])
    IN  Outcome(fs, [directory_path |-> directory_path_str, tag_searched |-> tag_to_find,
                     recursive |-> recursive, files_processed |-> acc.files_processed,
                     matching_files |-> acc.matching_files],
                acc.reads, {})

find_posts_by_tag(directory_path_str, tag_to_find, recursive, order) ==
    Return([name |-> "find_posts_by_tag", directory_path |-> directory_path_str,
            tag |-> tag_to_find, recursive |-> recursive],
           find_posts_outcome(directory_path_str, tag_to_find, recursive, order))

\* needle in haystack, for two strings
IsSubstring(needle, haystack) ==
    \E k \in 0..(Len(haystack) - Len(needle)) :
        \A i \in 1..Len(needle) : haystack[k + i] = needle[i]

\* str(value): a string is itself, None is "None"; the other values print
\* as their payload does.
PyStr(value) ==
    IF value = PyNone THEN <<"N", "o", "n", "e">>
    ELSE IF value.t = "list" THEN <<"[", "]">>
    ELSE value.v

\* new_tag appended whether the list holds it or not
renamed_list_appends_always(tags_list, old_tag, new_tag) ==
    LET differs(t) == t # old_tag
    IN  Append(SelectSeq(tags_list, differs), new_tag)

\* [t for t in tags_list if t != old_tag], then new_tag appended if missing
renamed_list(tags_list, old_tag, new_tag) ==
    LET differs(t) == t # old_tag
        kept == SelectSeq(tags_list, differs)
    IN  IF ~Contains(kept, new_tag) THEN Append(kept, new_tag) ELSE kept

\* The scalar branch without its test of equality: a string that holds
\* old_tag anywhere is replaced.
renamed_tags_by_substring(post, old_tag, new_tag) ==
    LET tags == MetaGet(post.meta, "tags") IN
    IF isinstance(tags, "list")
    THEN IF Contains(tags.v, old_tag)
         THEN List(renamed_list(tags.v, old_tag, new_tag))
         ELSE Absent
    ELSE IF IsSubstring(old_tag.v, IF post.meta["tags"] = Absent THEN <<>> ELSE PyStr(tags))
    THEN List(<<new_tag>>)
    ELSE Absent

\* The two branches of rename_tag_in_directory on a loaded post: the new
\* value of tags, or Absent when the file is left alone.
renamed_tags(post, old_tag, new_tag) ==
    LET tags == MetaGet(post.meta, "tags") IN
    IF isinstance(tags, "list")
    THEN IF Contains(tags.v, old_tag)
         THEN List(renamed_list(tags.v, old_tag, new_tag))
         ELSE Absent
    ELSE IF /\ IsSubstring(old_tag.v, IF post.meta["tags"] = Absent THEN <<>> ELSE PyStr(tags))
            /\ tags = old_tag
    THEN List(<<new_tag>>)
    ELSE Absent

RECURSIVE rename_loop(_, _, _, _, _, _)
\* The loop of rename_tag_in_directory.
rename_loop(order, i, old_tag, new_tag, readonly, acc) ==
    IF i > Len(order) THEN acc
    ELSE
    LET md_file_path == order[i] IN
    IF ~is_file(md_file_path)
    THEN rename_loop(order, i + 1, old_tag, new_tag, readonly, acc)
    ELSE
    LET loaded == load_from(acc.fs, md_file_path)
        scanned == [acc EXCEPT !.files_scanned = @ + 1,
                               !.reads = @ \cup Opened(md_file_path)]
    IN
    IF loaded[2] # NoError
    THEN rename_loop(order, i + 1, old_tag, new_tag, readonly,
            [scanned EXCEPT !.errors = Append(@, [loaded[2] EXCEPT !.file_path = md_file_path])])
    ELSE
    LET new_tags == renamed_tags(loaded[1], old_tag, new_tag) IN
    IF new_tags = Absent
    THEN rename_loop(order, i + 1, old_tag, new_tag, readonly, scanned)
    ELSE
    LET post == set_item(loaded[1], "tags", new_tags)
        err == save_error(md_file_path, readonly)
    IN  IF err # NoError
        THEN rename_loop(order, i + 1, old_tag, new_tag, readonly,
                [scanned EXCEPT !.errors = Append(@, err)])
        ELSE rename_loop(order, i + 1, old_tag, new_tag, readonly,
                [scanned EXCEPT !.fs = save_post(@, md_file_path, post, readonly),
                                !.modified_files = Append(@, md_file_path),
                                !.writes = @ \cup {md_file_path}])

rename_tag_outcome(directory_path_str, old_tag, new_tag, recursive, order, readonly) ==
    IF directory_error(directory_path_str) # NoError
    THEN Outcome(fs, [error |-> directory_error(directory_path_str).error], {}, {})
    ELSE IF ~(isinstance(old_tag, "str") /\ ~StripIsEmpty(old_tag.v))
    THEN Outcome(fs, [error |-> "Old tag must be a non-empty string", old_tag |-> old_tag],
                 {}, {})
    ELSE IF ~(isinstance(new_tag, "str") /\ ~StripIsEmpty(new_tag.v))
    THEN Outcome(fs, [error |-> "New tag must be a non-empty string", new_tag |-> new_tag],
                 {}, {})
    ELSE IF old_tag = new_tag
    THEN Outcome(fs, [message |-> "Old and new tags are the same",
                      old_tag |-> old_tag, new_tag |-> new_tag], {}, {})
    ELSE
    LET acc == rename_loop(order, 1, old_tag, new_tag, readonly,
                 [fs |-> fs, files_scanned |-> 0, modified_files |-> <<>>,
                  errors |-> <<>>, reads |-> {}, writes |-> {}])
    IN  Outcome(acc.fs,
                [directory_path |-> directory_path_str, old_tag |-> old_tag,
                 new_tag |-> new_tag, recursive |-> recursive,
                 files_scanned |-> acc.files_scanned,
                 modified_files |-> acc.modified_files, errors |-> acc.errors],
                acc.reads, acc.writes)

rename_tag_in_directory(directory_path_str, old_tag, new_tag, recursive, order, readonly) ==
    Return([name |-> "rename_tag_in_directory", directory_path |-> directory_path_str,
            old_tag |-> old_tag, new_tag |-> new_tag, recursive |-> recursive],
           rename_tag_outcome(directory_path_str, old_tag, new_tag, recursive, order, readonly))

\* datetime.strptime for formats made of %Y, %m, %d and literal characters.

DigitValue ==
    [c \in {"0", "1", "2", "3", "4", "5", "6", "7", "8", "9"} |->
        CASE c = "0" -> 0 [] c = "1" -> 1 [] c = "2" -> 2 [] c = "3" -> 3 [] c = "4" -> 4
          [] c = "5" -> 5 [] c = "6" -> 6 [] c = "7" -> 7 [] c = "8" -> 8 [] c = "9" -> 9]

IsDigit(c) == c \in DOMAIN DigitValue

\* The numbers a directive can read at position j of the text, each with the
\* position after it: %Y is four digits, %m is 1[0-2]|0[1-9]|[1-9], %d is
\* 3[01]|[12]\d|0[1-9]|[1-9].
DirectiveReads(directive, text, j) ==
    LET digits(n) == j + n - 1 <= Len(text) /\ \A k \in j..(j + n - 1) : IsDigit(text[k])
        number(n) == IF n = 1 THEN DigitValue[text[j]]
                     ELSE IF n = 2 THEN 10 * DigitValue[text[j]] + DigitValue[text[j + 1]]
                     ELSE 1000 * DigitValue[text[j]] + 100 * DigitValue[text[j + 1]]
                          + 10 * DigitValue[text[j + 2]] + DigitValue[text[j + 3]]
        two(lo, hi) == IF digits(2) /\ number(2) >= lo /\ number(2) <= hi
                       THEN {<<number(2), j + 2>>} ELSE {}
        one == IF digits(1) /\ number(1) >= 1 THEN {<<number(1), j + 1>>} ELSE {}
    IN  CASE directive = "Y" -> IF digits(4) THEN {<<number(4), j + 4>>} ELSE {}
          [] directive = "m" -> two(1, 12) \cup one
          [] directive = "d" -> two(1, 31) \cup one
          [] OTHER -> {}

RECURSIVE StrptimeMatches(_, _, _, _, _)
\* The ways the format from position i matches the whole text from position
\* j: the fields read.
StrptimeMatches(format, i, text, j, found) ==
    IF i > Len(format) THEN (IF j > Len(text) THEN {found} ELSE {})
    ELSE IF format[i] = "%" /\ i < Len(format)
    THEN UNION { StrptimeMatches(format, i + 2, text, r[2],
                                 [found EXCEPT ![format[i + 1]] = r[1]]) :
                 r \in DirectiveReads(format[i + 1], text, j) }
    ELSE IF j <= Len(text) /\ text[j] = format[i]
    THEN StrptimeMatches(format, i + 1, text, j + 1, found)
    ELSE {}

DaysInMonth(year, month) ==
    IF month \in {4, 6, 9, 11} THEN 30
    ELSE IF month = 2
    THEN (IF (year % 4 = 0 /\ year % 100 # 0) \/ year % 400 = 0 THEN 29 ELSE 28)
    ELSE 31

\* dt.strptime(date_value, expected_format_str) raises no ValueError: the
\* text matches and the fields make a date.
StrptimeOk(text, format) ==
    \E f \in StrptimeMatches(format, 1, text, 1, [Y |-> 1900, m |-> 1, d |-> 1]) :
        f.Y >= 1 /\ f.d <= DaysInMonth(f.Y, f.m)

\* The isinstance test of validate_date_formats for a value that is no
\* string: dt is datetime.datetime.
is_date_object(date_value) == date_value.t = "datetime"

\* What validate_date_formats appends to invalid_dates_info for the value
\* of the field: a sequence of no entry or one.
date_value_entries(md_file_path, date_value, expected_format_str) ==
    IF isinstance(date_value, "str")
    THEN IF StrptimeOk(date_value.v, expected_format_str) THEN <<>>
         ELSE <<[file_path |-> md_file_path, value |-> date_value,
                 error |-> "ValueError of strptime"]>>
    ELSE IF is_date_object(date_value) THEN <<>>
    ELSE <<[file_path |-> md_file_path, value |-> Str(PyStr(date_value)),
            error |-> "Field value is not a string or date object"]>>

\* A missing field read with .get and validated as None.
date_entries_reports_missing(md_file_path, post, field_name, expected_format_str) ==
    date_value_entries(md_file_path, MetaGet(post.meta, field_name), expected_format_str)

\* The same for a loaded post: a missing field is passed over.
date_entries(md_file_path, post, field_name, expected_format_str) ==
    IF ~MetaHas(post.meta, field_name) THEN <<>>
    ELSE date_value_entries(md_file_path, post.meta[field_name], expected_format_str)

RECURSIVE validate_loop(_, _, _, _, _)
\* The loop of validate_date_formats.
validate_loop(order, i, field_name, expected_format_str, acc) ==
    IF i > Len(order) THEN acc
    ELSE
    LET md_file_path == order[i] IN
    IF ~is_file(md_file_path)
    THEN validate_loop(order, i + 1, field_name, expected_format_str, acc)
    ELSE
    LET loaded == load_post(md_file_path)
        scanned == [acc EXCEPT !.files_scanned = @ + 1,
                               !.reads = @ \cup Opened(md_file_path)]
    IN
    IF loaded[2] # NoError
    THEN validate_loop(order, i + 1, field_name, expected_format_str,
            [scanned EXCEPT !.invalid_date_entries =
                Append(@, [file_path |-> md_file_path,
                           value |-> Str(<<"N", "/", "A">>),
                           error |-> "File load error"])])
    ELSE validate_loop(order, i + 1, field_name, expected_format_str,
            [scanned EXCEPT
                !.files_with_field =
                    IF MetaHas(loaded[1].meta, field_name) THEN @ + 1 ELSE @,
                !.invalid_date_entries =
                    @ \o date_entries(md_file_path, loaded[1], field_name,
                                      expected_format_str)])

\* An audit that repairs what it reports: the field is dropped from every
\* loaded file with an invalid entry, and the file saved.
validate_date_outcome_repairs(directory_path_str, field_name, expected_format_str, recursive, order) ==
    IF directory_error(directory_path_str) # NoError
    THEN Outcome(fs, [error |-> directory_error(directory_path_str).error], {}, {})
    ELSE
    LET acc == validate_loop(order, 1, field_name, expected_format_str,
                 [files_scanned |-> 0, files_with_field |-> 0,
                  invalid_date_entries |-> <<>>, reads |-> {}])
        bad == {p \in DOMAIN fs :
                  /\ fs[p].ok
                  /\ \E k \in 1..Len(acc.invalid_date_entries) :
                        acc.invalid_date_entries[k].file_path = p}
    IN  Outcome([p \in DOMAIN fs |->
                   IF p \in bad
                   THEN Post([fs[p].meta EXCEPT ![field_name] = Absent], fs[p].body)
                   ELSE fs[p]],
                [directory_path |-> directory_path_str,
                 field_name_validated |-> field_name,
                 expected_format |-> expected_format_str, recursive |-> recursive,
                 files_scanned |-> acc.files_scanned,
                 files_with_field |-> acc.files_with_field,
                 invalid_date_entries |-> acc.invalid_date_entries],
                acc.reads, bad)

validate_date_outcome(directory_path_str, field_name, expected_format_str, recursive, order) ==
    IF directory_error(directory_path_str) # NoError
    THEN Outcome(fs, [error |-> directory_error(directory_path_str).error], {}, {})
    ELSE
    LET acc == validate_loop(order, 1, field_name, expected_format_str,
                 [files_scanned |-> 0, files_with_field |-> 0,
                  invalid_date_entries |-> <<>>, reads |-> {}])
    IN  Outcome(fs, [directory_path |-> directory_path_str,
                     field_name_validated |-> field_name,
                     expected_format |-> expected_format_str, recursive |-> recursive,
                     files_scanned |-> acc.files_scanned,
                     files_with_field |-> acc.files_with_field,
                     invalid_date_entries |-> acc.invalid_date_entries],
                acc.reads, {})

validate_date_formats(directory_path_str, field_name, expected_format_str, recursive, order) ==
    Return([name |-> "validate_date_formats", directory_path |-> directory_path_str,
            field_name |-> field_name, expected_format |-> expected_format_str,
            recursive |-> recursive],
           validate_date_outcome(directory_path_str, field_name, expected_format_str,
                                 recursive, order))

---------------------------------------------------------------------------
(* The single-field tools on one well-formed file beside a malformed one.  *)

NoOp == [name |-> "none"]
NoRes == [none |-> TRUE]

OldText == <<"o", "l", "d">>
NewText == <<"n", "e", "w">>

\* What a caller passes as a value: a string, a boolean, a number.
SetValues == {Str(NewText), PyBool(TRUE), PyInt(<<"7">>)}

FilePathArgs == {"/r/a.md", "/r/sub/b.md", "/nofile.md", "rel.md"}

SetFiles == {"/r/a.md", "/r/sub/b.md"}

\* A call's save fails or not: the set of files that cannot be written.
SaveOutcomes(file_path) == {{}, {file_path}}

SetMetas ==
    { [NoMeta EXCEPT !["title"] = t, !["draft"] = d, !["tags"] = g] :
        t \in {Absent, Str(OldText)},
        d \in {Absent, PyBool(FALSE)},
        g \in {Absent, List(<<Str(<<"a">>)>>)} }

InitSet ==
    /\ fs \in { [p \in SetFiles |-> IF p = "/r/a.md" THEN Post(m, "text") ELSE Malformed] :
                m \in SetMetas }
    /\ op = NoOp
    /\ res = NoRes
    /\ reads = {}
    /\ writes = {}

NextSet ==
    \E file_path \in FilePathArgs :
        \/ \E value \in SetValues, readonly \in SaveOutcomes(file_path) :
              \/ set_title(file_path, value, readonly)
              \/ set_date(file_path, value, readonly)
              \/ set_publish_date(file_path, value, readonly)
              \/ set_description(file_path, value, readonly)
              \/ set_draft_status(file_path, value, readonly)
        \/ get_frontmatter(file_path)
        \/ \E field_name \in Keys : get_field(file_path, field_name)

SpecSet == InitSet /\ [][NextSet]_vars

---------------------------------------------------------------------------
(* The list tools on one file beside a malformed one.                      *)

\* The longest list a file holds; add_tag and add_image stop there.
MaxLen == 3

TagA == Str(<<"a">>)
TagB == Str(<<"b">>)
TagC == Str(<<"c">>)

RECURSIVE SeqsUpTo(_, _)
\* The sequences over S of length at most n.
SeqsUpTo(S, n) ==
    IF n = 0 THEN {<<>>}
    ELSE LET shorter == SeqsUpTo(S, n - 1) IN
         shorter \cup {Append(q, x) : q \in {t \in shorter : Len(t) = n - 1}, x \in S}

\* What a list field holds: nothing, null, a scalar string, a number, or a
\* list (duplicates and a non-string item among them).
ListFieldValues(items) ==
    {Absent, PyNone, PyInt(<<"7">>)} \cup items
      \cup {List(q) : q \in SeqsUpTo(items, MaxLen)}

ItemArgs == {TagA, TagB, Str(<<" ">>), Str(<<>>), PyInt(<<"7">>)}

ListMetas ==
    { [NoMeta EXCEPT !["title"] = Str(OldText), !["tags"] = g, !["images"] = i] :
        g \in ListFieldValues({TagA, TagB}),
        i \in {Absent, List(<<TagA, TagA>>)} }

InitList ==
    /\ fs \in { [p \in SetFiles |-> IF p = "/r/a.md" THEN Post(m, "text") ELSE Malformed] :
                m \in ListMetas }
    /\ op = NoOp
    /\ res = NoRes
    /\ reads = {}
    /\ writes = {}

\* An add does not grow a list of the longest length.
CanAdd(file_path, field_name, item) ==
    file_path \in DOMAIN fs =>
        (fs[file_path].meta[field_name].t = "list" =>
            \/ Len(fs[file_path].meta[field_name].v) < MaxLen
            \/ Contains(fs[file_path].meta[field_name].v, item))

NextList ==
    \E file_path \in FilePathArgs, item \in ItemArgs :
      \E readonly \in SaveOutcomes(file_path) :
        \/ CanAdd(file_path, "tags", item) /\ add_tag(file_path, item, readonly)
        \/ remove_tag(file_path, item, readonly)
        \/ CanAdd(file_path, "images", item) /\ add_image(file_path, item, readonly)
        \/ remove_image(file_path, item, readonly)

SpecList == InitList /\ [][NextList]_vars

---------------------------------------------------------------------------
(* The read-only directory tools on three files.                           *)

\* The longest tags list of a file in the directory.
MaxTags == 3

DirArgs == {"/r", "/r/sub", "/nodir", "r"}

\* The tags of /r/a.md: nothing, null, a scalar string, a number, or a list
\* over the items.
TagsValues(items) ==
    {Absent, PyNone, TagA, Str(<<"a", "b">>), PyInt(<<"7">>)}
      \cup {List(q) : q \in SeqsUpTo(items, MaxTags)}

WithTags(g) == Post([NoMeta EXCEPT !["title"] = Str(OldText), !["tags"] = g], "text")

\* The two files of /r/sub: b.md is malformed or holds a scalar tag, c.md
\* is malformed or holds a list of two tags.
DocsB == {Malformed, WithTags(TagA)}
DocsC == {Malformed, WithTags(List(<<TagB, TagA>>))}

TreeWith(docs) ==
    { [p \in MdFiles |-> IF p = "/r/a.md" THEN a ELSE IF p = "/r/sub/b.md" THEN b ELSE c] :
        a \in docs, b \in DocsB, c \in DocsC }

InitScan ==
    /\ fs \in TreeWith({Malformed} \cup
                       {WithTags(g) : g \in TagsValues({TagA, TagB, PyInt(<<"7">>)})})
    /\ op = NoOp
    /\ res = NoRes
    /\ reads = {}
    /\ writes = {}

FindArgs == {TagA, TagB, Str(<<" ">>), PyInt(<<"7">>)}

NextScan ==
    \E directory_path \in DirArgs, recursive \in BOOLEAN :
      \E order \in GlobOrders(directory_path, recursive) :
        \/ list_tags_in_directory(directory_path, recursive, order)
        \/ \E tag \in FindArgs : find_posts_by_tag(directory_path, tag, recursive, order)

SpecScan == InitScan /\ [][NextScan]_vars

---------------------------------------------------------------------------
(* The tag rename on three files.                                          *)

InitRename ==
    /\ fs \in TreeWith({Malformed} \cup
                       {WithTags(g) : g \in TagsValues({TagA, TagB, TagC})})
    /\ op = NoOp
    /\ res = NoRes
    /\ reads = {}
    /\ writes = {}

\* <<old_tag, new_tag>> of a call that passes the argument checks
RenameArgs == {<<TagA, TagC>>, <<TagB, TagA>>}

\* <<directory, old_tag, new_tag>> of a call that fails them, or has nothing
\* to do
RejectedRenameArgs ==
    {<<"/nodir", TagA, TagC>>, <<"r", TagA, TagC>>, <<"/r", Str(<<" ">>), TagC>>,
     <<"/r", TagA, PyInt(<<"7">>)>>, <<"/r", TagA, TagA>>,
     <<"/nodir", TagA, TagA>>, <<"/r", Str(<<" ">>), Str(<<" ">>)>>}

\* The files whose save fails during a call: none, or one of them.
ReadonlyArgs == {{}, {"/r/a.md"}, {"/r/sub/c.md"}}

NextRename ==
    \/ \E directory_path \in {"/r"}, recursive \in BOOLEAN, tags \in RenameArgs :
         \E order \in GlobOrders(directory_path, recursive), readonly \in ReadonlyArgs :
           rename_tag_in_directory(directory_path, tags[1], tags[2], recursive, order,
                                   readonly)
    \/ \E args \in RejectedRenameArgs, recursive \in BOOLEAN :
         rename_tag_in_directory(args[1], args[2], args[3], recursive, <<>>, {})

SpecRename == InitRename /\ [][NextRename]_vars

---------------------------------------------------------------------------
(* The date validation on three files.                                     *)

IsoFormat == <<"%", "Y", "-", "%", "m", "-", "%", "d">>
DayFirstFormat == <<"%", "d", "/", "%", "m", "/", "%", "Y">>

FormatArgs == {IsoFormat, DayFirstFormat}

Jan15 == <<"2", "0", "2", "3", "-", "0", "1", "-", "1", "5">>

\* Strings a date field can hold.
DateTexts ==
    { Jan15,
      <<"2", "0", "2", "3", "-", "1", "3", "-", "4", "0">>,
      <<"2", "0", "2", "3", "-", "0", "2", "-", "3", "0">>,
      <<"2", "0", "2", "4", "-", "2", "-", "2", "9">>,
      <<"2", "0", "2", "3", "-", "0", "1", "-", "1", "5", "T", "1", "0">>,
      <<"1", "5", "/", "0", "1", "/", "2", "0", "2", "3">>,
      <<"s", "o", "o", "n">>,
      <<>> }

\* What a date field can hold: nothing, null, a string, the date or the
\* datetime the YAML parser makes of an unquoted value, a number.
DateValues ==
    {Absent, PyNone, Date(Jan15), DateTime(Jan15 \o <<" ", "1", "0", ":", "0", "0">>),
     PyInt(<<"7">>)} \cup {Str(text) : text \in DateTexts}

WithDates(d, pd) ==
    Post([NoMeta EXCEPT !["title"] = Str(OldText), !["date"] = d, !["publishDate"] = pd],
         "text")

InitDates ==
    /\ fs \in { [p \in MdFiles |->
                  IF p = "/r/a.md" THEN a ELSE IF p = "/r/sub/b.md" THEN b ELSE c] :
                a \in {Malformed} \cup {WithDates(d, Absent) : d \in DateValues},
                b \in {Malformed, WithDates(Str(Jan15), Date(Jan15))},
                c \in {WithDates(Absent, Str(Jan15)), WithDates(Date(Jan15), Absent)} }
    /\ op = NoOp
    /\ res = NoRes
    /\ reads = {}
    /\ writes = {}

NextDates ==
    \E directory_path \in DirArgs, recursive \in BOOLEAN :
      \E order \in GlobOrders(directory_path, recursive) :
        \E field_name \in {"date", "publishDate"}, format \in FormatArgs :
          validate_date_formats(directory_path, field_name, format, recursive, order)

SpecDates == InitDates /\ [][NextDates]_vars

---------------------------------------------------------------------------
(* The five read-only tools on three files.                                *)

\* /r/a.md is malformed or holds tags and a date.
DocsRead ==
    {Malformed} \cup
    { Post([NoMeta EXCEPT !["title"] = Str(OldText), !["tags"] = g, !["date"] = d], "text") :
        g \in {Absent, TagA, List(<<TagA, TagB>>)},
        d \in {Absent, Str(Jan15), Str(<<"s", "o", "o", "n">>), Date(Jan15)} }

InitRead ==
    /\ fs \in TreeWith(DocsRead)
    /\ op = NoOp
    /\ res = NoRes
    /\ reads = {}
    /\ writes = {}

ReadPathArgs == FilePathArgs \cup {"/r/sub/c.md", "/r/d.md"}

NextRead ==
    \/ \E file_path \in ReadPathArgs :
         \/ get_frontmatter(file_path)
         \/ \E field_name \in Keys : get_field(file_path, field_name)
    \/ \E directory_path \in DirArgs, recursive \in BOOLEAN :
         \E order \in GlobOrders(directory_path, recursive) :
           \/ list_tags_in_directory(directory_path, recursive, order)
           \/ \E tag \in FindArgs : find_posts_by_tag(directory_path, tag, recursive, order)
           \/ \E field_name \in {"date", "publishDate"}, format \in FormatArgs :
                validate_date_formats(directory_path, field_name, format, recursive, order)

SpecRead == InitRead /\ [][NextRead]_vars

---------------------------------------------------------------------------
(* Properties.                                                             *)

SetterNames == {"set_title", "set_date", "set_publish_date", "set_description",
                "set_draft_status"}

\* The field each setter writes and the type it takes.
TargetField(name) ==
    CASE name = "set_title" -> "title"
      [] name = "set_date" -> "date"
      [] name = "set_publish_date" -> "publishDate"
      [] name = "set_description" -> "description"
      [] name = "set_draft_status" -> "draft"

ExpectedType(name) == IF name = "set_draft_status" THEN "bool" ELSE "str"

\* The file at p exists and its frontmatter parses.
Readable(p) == p \in AbsPaths /\ p \in DOMAIN fs /\ fs[p].ok

\* A list field read as a sequence: nothing for a missing field, one entry
\* for a scalar.
AsList(value) ==
    IF value \in {Absent, PyNone} THEN <<>>
    ELSE IF value.t = "list" THEN value.v
    ELSE <<value>>

\* items without any occurrence of x
Without(items, x) == LET keep(e) == e # x IN SelectSeq(items, keep)

\* How often x occurs in items
Occurrences(items, x) == Cardinality({i \in 1..Len(items) : items[i] = x})

ListField(name) == IF name \in {"add_tag", "remove_tag"} THEN "tags" ELSE "images"

\* C4: after a remove_tag or remove_image that removed the item, the stored
\* list holds no occurrence of the item and every other entry is kept.
C4_RemoveAllOccurrences ==
    [][ (op'.name \in {"remove_tag", "remove_image"} /\ "action" \in DOMAIN res')
        => fs'[op'.file_path].meta[ListField(op'.name)]
             = List(Without(AsList(fs[op'.file_path].meta[ListField(op'.name)]), op'.item))
      ]_vars

\* add_tag of an item the tags hold, or remove_tag of one they do not.
C5_NothingToDo ==
    LET tags == AsList(fs[op'.file_path].meta["tags"]) IN
    \/ op'.name = "add_tag" /\ Contains(tags, op'.item)
    \/ op'.name = "remove_tag" /\ ~Contains(tags, op'.item)

C5_NoOpResult ==
    /\ "error" \notin DOMAIN res'
    /\ "message" \in DOMAIN res'
    /\ writes' = {}
    /\ fs' = fs

\* add_tag(p, x) again, right after an add_tag(p, x) that returned no error,
\* changes nothing.
C5_SecondAdd ==
    (op.name = "add_tag" /\ op' = op /\ "error" \notin DOMAIN res)
        => (writes' = {} /\ fs' = fs)

\* C5 as stated: on every readable document and for every string item that
\* is not blank, an add_tag of a present item and a remove_tag of a missing
\* item return a message and no error and write nothing; a second add_tag
\* changes nothing.
C5_NoOpEveryDocument ==
    [][ /\ (/\ op'.name \in {"add_tag", "remove_tag"}
            /\ op'.item.t = "str" /\ ~StripIsEmpty(op'.item.v)
            /\ Readable(op'.file_path)
            /\ C5_NothingToDo) => C5_NoOpResult
        /\ C5_SecondAdd
      ]_vars

\* C5, amended: the same for a string item that is not blank, on a readable
\* document whose tags are missing, null, a string or a list.
C5_NoOpOnListLikeTags ==
    [][ /\ (/\ op'.name \in {"add_tag", "remove_tag"}
            /\ op'.item.t = "str" /\ ~StripIsEmpty(op'.item.v)
            /\ Readable(op'.file_path)
            /\ fs[op'.file_path].meta["tags"].t \in {"absent", "NoneType", "str", "list"}
            /\ C5_NothingToDo) => C5_NoOpResult
        /\ C5_SecondAdd
      ]_vars

\* An add_tag of the string the scalar tags field holds returned "already
\* exists", and the field is still the scalar.
C5_Witness ==
    /\ op.name = "add_tag"
    /\ "message" \in DOMAIN res
    /\ res.message = "already exists"
    /\ fs[op.file_path].meta["tags"] = op.item

\* C6: a setter given a value of the wrong type returns the type error,
\* reads no file and writes none, whatever the path.
C6_TypeEnforcement ==
    [][ (op'.name \in SetterNames /\ op'.value.t # ExpectedType(op'.name))
        => /\ "error" \in DOMAIN res'
           /\ res'.error = "Value must be of the expected type"
           /\ reads' = {}
           /\ writes' = {}
           /\ fs' = fs
      ]_vars

\* set_draft_status was given a string and a relative path, and failed.
C6_Witness ==
    /\ op.name = "set_draft_status"
    /\ op.value = Str(NewText)
    /\ op.file_path = "rel.md"
    /\ "error" \in DOMAIN res

\* C7: a setter that returns no error leaves the file with its old metadata
\* except the target field, which holds the new value, and with its old
\* body; no other file changes; new_value is the value written, and
\* get_frontmatter then returns that metadata.
C7_SetThenGet ==
    [][ (op'.name \in SetterNames /\ "error" \notin DOMAIN res')
        => \E p \in DOMAIN fs :
             LET after == [k \in Keys |-> IF k = TargetField(op'.name) THEN op'.value
                                          ELSE fs[p].meta[k]]
             IN  /\ p = op'.file_path
                 /\ Readable(p)
                 /\ fs'[p] = Post(after, fs[p].body)
                 /\ \A q \in DOMAIN fs \ {p} : fs'[q] = fs[q]
                 /\ DOMAIN fs' = DOMAIN fs
                 /\ res'.new_value = op'.value
                 /\ get_frontmatter_result(p)' = [file_path |-> p, frontmatter |-> after]
      ]_vars

\* set_title succeeded on a file that holds tags and a draft flag.
C7_Witness ==
    /\ op.name = "set_title"
    /\ "new_value" \in DOMAIN res
    /\ fs[op.file_path].meta["tags"] # Absent
    /\ fs[op.file_path].meta["draft"] = PyBool(FALSE)
    /\ fs[op.file_path].meta["title"] = Str(NewText)

\* The regular .md files a directory tool visits.
Enumerated(directory_path, recursive) == Glob(directory_path, recursive) \cap DOMAIN fs

\* The call was a directory tool's and got past the checks of its arguments.
Scanned(name) ==
    /\ op.name = name
    /\ "error" \notin DOMAIN res
    /\ "directory_path" \in DOMAIN res

\* The places <<file, position>> of the string tag in the tags lists of files.
TagPlaces(files, tag) ==
    UNION { {<<p, i>> : i \in {k \in 1..Len(fs[p].meta["tags"].v) :
                                  fs[p].meta["tags"].v[k] = tag}} :
            p \in {q \in files : fs[q].meta["tags"].t = "list"} }

\* The tally of the string tags in the tags lists of files.
Tally(files) ==
    LET tags == { t \in UNION { {fs[p].meta["tags"].v[i] : i \in 1..Len(fs[p].meta["tags"].v)} :
                                p \in {q \in files : fs[q].meta["tags"].t = "list"} } :
                  t.t = "str" }
    IN  [t \in tags |-> Cardinality(TagPlaces(files, t))]

\* C1: list_tags_in_directory on a directory returns no error, counts every
\* regular .md file below it, malformed ones included, and tallies the tags
\* of the files that load.
C1_PartialFailureIsolation ==
    (op.name = "list_tags_in_directory" /\ op.directory_path \in {"/r", "/r/sub"})
        => LET files == Enumerated(op.directory_path, op.recursive) IN
           /\ "error" \notin DOMAIN res
           /\ res.files_processed = Cardinality(files)
           /\ res.tag_counts = Tally({p \in files : fs[p].ok})

\* One malformed file beside two that load, all three counted, and tags
\* tallied.
C1_Witness ==
    /\ Scanned("list_tags_in_directory")
    /\ res.files_processed = 3
    /\ Cardinality({p \in DOMAIN fs : ~fs[p].ok}) = 1
    /\ ~fs["/r/a.md"].ok
    /\ DOMAIN res.tag_counts # {}

\* A file that was saved: the result holds no error entry for it.
NoErrorEntry(result, p) ==
    \A i \in 1..Len(result.errors) : result.errors[i].file_path # p

\* C2: in a rename of old to new, a loaded file without error entry whose
\* tags list held old holds afterwards that list without old, ending in new
\* if new was not in it; one whose tags were the string old holds [new].
C2_RenameSemantics ==
    [][ (op'.name = "rename_tag_in_directory" /\ "modified_files" \in DOMAIN res')
        => \A p \in Enumerated(op'.directory_path, op'.recursive) :
             (fs[p].ok /\ NoErrorEntry(res', p))
             => LET before == fs[p].meta["tags"]
                    after == fs'[p].meta["tags"]
                IN  /\ (before.t = "list" /\ Contains(before.v, op'.old_tag))
                        => /\ after.t = "list"
                           /\ ~Contains(after.v, op'.old_tag)
                           /\ Without(after.v, op'.new_tag)
                                = Without(Without(before.v, op'.old_tag), op'.new_tag)
                           /\ Occurrences(after.v, op'.new_tag)
                                = IF Contains(before.v, op'.new_tag)
                                  THEN Occurrences(before.v, op'.new_tag)
                                  ELSE 1
                    /\ before = op'.old_tag => after = List(<<op'.new_tag>>)
      ]_vars

\* A rename of a to c wrote /r/a.md, which now holds [b, c], and turned the
\* scalar tag of /r/sub/b.md into [c].
C2_Witness ==
    /\ op.name = "rename_tag_in_directory"
    /\ op.old_tag = TagA
    /\ writes = {"/r/a.md", "/r/sub/b.md"}
    /\ fs["/r/a.md"].meta["tags"] = List(<<TagB, TagC>>)
    /\ fs["/r/sub/b.md"].meta["tags"] = List(<<TagC>>)

\* p is listed in the sequence of paths
Listed(paths, p) == \E i \in 1..Len(paths) : paths[i] = p

\* C3: find_posts_by_tag lists a loaded file whose tags are one string
\* exactly when that string is the tag searched.
C3_ScalarTagFound ==
    Scanned("find_posts_by_tag")
        => \A p \in Enumerated(op.directory_path, op.recursive) :
             (fs[p].ok /\ fs[p].meta["tags"].t = "str")
             => (Listed(res.matching_files, p) <=> fs[p].meta["tags"] = op.tag)

\* The per-file error entries of a directory tool's result: the errors list,
\* or the load-error entries among the invalid dates.
ErrorEntries(result) ==
    IF "errors" \in DOMAIN result THEN result.errors
    ELSE IF "invalid_date_entries" \in DOMAIN result
    THEN LET load_error(e) == e.error = "File load error"
         IN  SelectSeq(result.invalid_date_entries, load_error)
    ELSE <<>>

\* C8: the result of list_tags_in_directory, find_posts_by_tag and
\* validate_date_formats holds one error entry, with the file's path, for
\* every file visited that does not load, and no other.
C8_LoadErrorsRecorded ==
    \A name \in {"list_tags_in_directory", "find_posts_by_tag", "validate_date_formats"} :
      Scanned(name)
        => LET failed == {p \in Enumerated(op.directory_path, op.recursive) : ~fs[p].ok}
               entries == ErrorEntries(res)
           IN  /\ Len(entries) = Cardinality(failed)
               /\ \A p \in failed : \E i \in 1..Len(entries) : entries[i].file_path = p

\* The positions of the entries of file p among the invalid dates.
EntriesOf(result, p) ==
    {i \in 1..Len(result.invalid_date_entries) : result.invalid_date_entries[i].file_path = p}

\* C9: for a loaded file, a string that strptime rejects has exactly one
\* entry, with the string as its value; a string it accepts and a missing
\* field have none; files_with_field counts the loaded files with the field.
C9_StringAndMissingDates ==
    Scanned("validate_date_formats")
        => LET files == {p \in Enumerated(op.directory_path, op.recursive) : fs[p].ok} IN
           /\ \A p \in files :
                LET value == fs[p].meta[op.field_name] IN
                /\ (value.t = "str" /\ ~StrptimeOk(value.v, op.expected_format))
                     => /\ Cardinality(EntriesOf(res, p)) = 1
                        /\ \A i \in EntriesOf(res, p) :
                             res.invalid_date_entries[i].value = value
                /\ ((value.t = "str" /\ StrptimeOk(value.v, op.expected_format))
                      \/ value = Absent)
                     => EntriesOf(res, p) = {}
           /\ res.files_with_field
                = Cardinality({p \in files : fs[p].meta[op.field_name] # Absent})

\* A validation of "date" found 2023-13-40 in /r/a.md and reported it, and
\* passed over /r/sub/c.md, which has no date.
C9_Witness ==
    /\ Scanned("validate_date_formats")
    /\ op.field_name = "date" /\ op.expected_format = IsoFormat
    /\ op.directory_path = "/r" /\ op.recursive
    /\ fs["/r/a.md"].ok
    /\ fs["/r/a.md"].meta["date"] = Str(<<"2", "0", "2", "3", "-", "1", "3", "-", "4", "0">>)
    /\ Cardinality(EntriesOf(res, "/r/a.md")) = 1
    /\ fs["/r/sub/c.md"].meta["date"] = Absent
    /\ EntriesOf(res, "/r/sub/c.md") = {}

\* C10: a loaded file whose field is a date or a datetime has no entry among
\* the invalid dates.
C10_DateObjectsValid ==
    Scanned("validate_date_formats")
        => \A p \in Enumerated(op.directory_path, op.recursive) :
             (fs[p].ok /\ fs[p].meta[op.field_name].t \in {"date", "datetime"})
             => EntriesOf(res, p) = {}

ReadOnlyNames ==
    {"validate_date_formats", "list_tags_in_directory", "find_posts_by_tag",
     "get_frontmatter", "get_field"}

\* C11: a call of validate_date_formats, list_tags_in_directory,
\* find_posts_by_tag, get_frontmatter or get_field, whatever its arguments
\* and whichever files load, leaves the metadata and body of every file as
\* they were, creates and removes no file, and writes none.
C11_ReadOnlyFrame ==
    [][op'.name \in ReadOnlyNames
         => /\ DOMAIN fs' = DOMAIN fs
            /\ \A p \in DOMAIN fs : fs'[p] = fs[p]
            /\ writes' = {}]_vars

\* A recursive validation read a malformed file and a file with an invalid
\* date, reported both, and wrote nothing.
C11_Witness ==
    /\ Scanned("validate_date_formats")
    /\ op.field_name = "date" /\ op.directory_path = "/r" /\ op.recursive
    /\ fs["/r/a.md"].ok
    /\ fs["/r/a.md"].meta["date"] = Str(<<"s", "o", "o", "n">>)
    /\ ~fs["/r/sub/b.md"].ok
    /\ {"/r/a.md", "/r/sub/b.md"} \subseteq reads
    /\ Len(res.invalid_date_entries) >= 2
    /\ writes = {}

\* The file's tags are a list that holds old_tag, or the string old_tag.
Matching(file, old_tag) ==
    /\ file.ok
    /\ \/ file.meta["tags"].t = "list" /\ Contains(file.meta["tags"].v, old_tag)
       \/ file.meta["tags"] = old_tag

\* The call's arguments pass the checks that open rename_tag_in_directory.
RenameArgsAccepted(call) ==
    /\ call.directory_path \in AbsPaths \cap Dirs
    /\ call.old_tag.t = "str" /\ ~StripIsEmpty(call.old_tag.v)
    /\ call.new_tag.t = "str" /\ ~StripIsEmpty(call.new_tag.v)

\* A rename of old to new, old # new, that walked the directory: a loaded
\* file that does not match is as it was, unwritten, and in neither list;
\* modified_files holds, once each, the matching files without error entry,
\* and no file outside it has changed.
RenameTouchesMatching ==
    (op'.name = "rename_tag_in_directory" /\ op'.old_tag # op'.new_tag
       /\ "modified_files" \in DOMAIN res')
    => LET files == Enumerated(op'.directory_path, op'.recursive)
           modified == {res'.modified_files[i] : i \in 1..Len(res'.modified_files)}
       IN  /\ \A p \in files :
                (fs[p].ok /\ ~Matching(fs[p], op'.old_tag))
                => /\ fs'[p] = fs[p]
                   /\ p \notin writes'
                   /\ p \notin modified
                   /\ NoErrorEntry(res', p)
           /\ modified = {p \in files : Matching(fs[p], op'.old_tag) /\ NoErrorEntry(res', p)}
           /\ Len(res'.modified_files) = Cardinality(modified)
           /\ writes' = modified
           /\ \A p \in DOMAIN fs \ modified : fs'[p] = fs[p]

\* A rename with old = new reads and writes no file.
RenameSameTagsIdle ==
    (op'.name = "rename_tag_in_directory" /\ op'.old_tag = op'.new_tag)
    => /\ reads' = {} /\ writes' = {}
       /\ fs' = fs

\* C12 as claimed: a rename leaves the files that do not match untouched
\* and unlisted, lists in modified_files exactly the matching files that
\* were saved, and every call with old = new returns the no-op message
\* without reading or writing a file.
C12_RenameFrameEveryCall ==
    [][ /\ RenameTouchesMatching
        /\ RenameSameTagsIdle
        /\ (op'.name = "rename_tag_in_directory" /\ op'.old_tag = op'.new_tag)
             => "message" \in DOMAIN res' ]_vars

\* C12, amended: the same, the no-op message being returned when old = new
\* and the directory is an existing directory given by an absolute path and
\* the tag is a string that is not blank; otherwise the call with old = new
\* returns the error of the failed check, still without reading or writing.
C12_RenameFrame ==
    [][ /\ RenameTouchesMatching
        /\ RenameSameTagsIdle
        /\ (op'.name = "rename_tag_in_directory" /\ op'.old_tag = op'.new_tag)
             => IF RenameArgsAccepted(op')
                THEN "message" \in DOMAIN res' /\ "error" \notin DOMAIN res'
                ELSE "error" \in DOMAIN res' /\ "message" \notin DOMAIN res' ]_vars

\* A rename of a to c passed over /r/a.md, whose tags are the string "ab",
\* and saved another file.
C12_Witness ==
    /\ op.name = "rename_tag_in_directory"
    /\ op.old_tag = TagA /\ op.new_tag = TagC
    /\ "modified_files" \in DOMAIN res
    /\ fs["/r/a.md"].ok
    /\ fs["/r/a.md"].meta["tags"] = Str(<<"a", "b">>)
    /\ "/r/a.md" \in reads
    /\ "/r/a.md" \notin writes
    /\ ~Listed(res.modified_files, "/r/a.md")
    /\ Len(res.modified_files) >= 1

====
